---- MODULE Spec2Model ----
(***************************************************************************)
(* Model of highway-heatmap-app/public/files/analyze_heatmaps.py:          *)
(* analyze_heatmaps(file_path, threshold_n, score_col) loads a CSV, drops  *)
(* the rows without a highway id or a county, coerces the score column to  *)
(* numbers, groups the rows by (highway id, county), counts the groups     *)
(* with no valid score below 50 and the groups with fewer than threshold_n *)
(* valid scores, and prints the totals.  One action per statement.         *)
(*                                                                         *)
(* A cell of the table is an option: <<>> is NaN (an empty CSV field),     *)
(* <<v>> is the value v.  A raw score cell is the sequence of the field's  *)
(* characters, so that numeric coercion is a real parse.                   *)
(***************************************************************************)
EXTENDS Integers, Sequences, FiniteSets, TLC

\* ---------------------------------------------------------------- bounds
MaxRows == 3
MaxN == 3

\* ------------------------------------------------------ program constants
\* valid_scores < 50
Limit == 50

\* ---------------------------------------------------------------- inputs
NaN == <<>>

DigitChars == <<"0", "1", "2", "3", "4", "5", "6", "7", "8", "9">>

\* The score fields a CSV row may hold: empty, non-numeric text, and the
\* numbers on both sides of the limit 50.
RawScores == {<<>>, <<"a">>, <<"4", "9">>, <<"5", "0">>}

\* The (highway id, county) fields a CSV row may hold: two full keys, and a
\* key with either field empty.
FullKeys == {<<<<1>>, <<1>>>>, <<<<2>>, <<1>>>>}

PartialKeys == {<<NaN, <<1>>>>, <<<<1>>, NaN>>}

\* A row without a full key is dropped whatever its score: such rows come
\* with a score below the limit only, the one that would change a count.
RowSet ==
  {[hw |-> k[1], county |-> k[2], score |-> s] : k \in FullKeys, s \in RawScores}
  \cup {[hw |-> k[1], county |-> k[2], score |-> s] :
          k \in PartialKeys, s \in {<<"4", "9">>}}

\* The thresholds tried: 0 (no group is below it), 1 (the groups with no valid
\* score are) and MaxN.
Thresholds == {0, 1, MaxN}

Tables == UNION {[1..n -> RowSet] : n \in 0..MaxRows}

HwCol == "TX_SIGNED_HIGHWAY_RDBD_ID"

CountyCol == "COUNTY"

ScoreCol == "TX_CONDITION_SCORE"

AllColumns == {HwCol, CountyCol, ScoreCol}

\* The file system: one path holds a file, the others hold nothing.
ExistingPaths == {"./PMIS_2024_trimmed.csv"}

Paths == ExistingPaths \cup {"./absent.csv", "./typo.csv"}

Missing == [exists |-> FALSE, columns |-> {}, rows |-> <<>>]

\* A file with a column missing is modelled without data rows; a file with
\* no columns at all is the empty file.
Files ==
  {[exists |-> TRUE, columns |-> c, rows |-> <<>>] : c \in (SUBSET AllColumns) \ {AllColumns}}
  \cup {[exists |-> TRUE, columns |-> AllColumns, rows |-> t] : t \in Tables}

VARIABLES file_path, threshold_n, file, pc, df, grouped, idx,
          total_groups, no_cells_below_50_count, below_n_threshold_count,
          out, exc

vars == <<file_path, threshold_n, file, pc, df, grouped, idx,
          total_groups, no_cells_below_50_count, below_n_threshold_count,
          out, exc>>

inputs == <<file_path, threshold_n, file>>

counters == <<total_groups, no_cells_below_50_count, below_n_threshold_count>>

\* ------------------------------------------------------- pure operations
isna(x) == x = NaN

IsDigit(ch) == \E i \in 1..Len(DigitChars) : DigitChars[i] = ch

DigitValue(ch) == (CHOOSE i \in 1..Len(DigitChars) : DigitChars[i] = ch) - 1

RECURSIVE DigitsValue(_)
DigitsValue(s) ==
  IF s = <<>> THEN 0
  ELSE 10 * DigitsValue(SubSeq(s, 1, Len(s) - 1)) + DigitValue(s[Len(s)])

\* pd.to_numeric(..., errors='coerce') on one cell: a field of digits is its
\* number, anything else (NaN, text) is NaN.
ParseNumber(s) ==
  IF s # <<>> /\ \A i \in 1..Len(s) : IsDigit(s[i]) THEN <<DigitsValue(s)>> ELSE NaN

\* Variant: dropna() without subset=, a row with any empty cell is dropped.
DropNa_AnyColumn(t) ==
  SelectSeq(t, LAMBDA r : ~isna(r.hw) /\ ~isna(r.county) /\ ~isna(r.score))

\* Variant: fillna(0) on the key columns instead of dropping the rows.
DropNa_Fill(t) ==
  [i \in 1..Len(t) |->
     [t[i] EXCEPT !.hw = IF isna(@) THEN <<0>> ELSE @,
                  !.county = IF isna(@) THEN <<0>> ELSE @]]

\* df.dropna(subset=[highway, county])
DropNa(t) == SelectSeq(t, LAMBDA r : ~isna(r.hw) /\ ~isna(r.county))

\* df[score_col] = pd.to_numeric(df[score_col], errors='coerce')
ToNumeric(t) == [i \in 1..Len(t) |-> [t[i] EXCEPT !.score = ParseNumber(@)]]

KeyOf(r) == <<r.hw, r.county>>

KeyLess(a, b) ==
  \/ a[1][1] < b[1][1]
  \/ a[1][1] = b[1][1] /\ a[2][1] < b[2][1]

RECURSIVE SortKeys(_)
SortKeys(S) ==
  IF S = {} THEN <<>>
  ELSE LET m == CHOOSE k \in S : \A o \in S \ {k} : KeyLess(k, o)
       IN <<m>> \o SortKeys(S \ {m})

\* Variant: grouping of adjacent rows only (itertools.groupby on an unsorted
\* table): a key that comes back after another key opens a new group.
RECURSIVE GroupBy_Consecutive(_)
GroupBy_Consecutive(t) ==
  IF Len(t) = 0 THEN <<>>
  ELSE LET front == GroupBy_Consecutive(SubSeq(t, 1, Len(t) - 1))
           r == t[Len(t)]
       IN IF isna(r.hw) \/ isna(r.county) THEN front
          ELSE IF Len(t) > 1 /\ KeyOf(t[Len(t) - 1]) = KeyOf(r)
            THEN [front EXCEPT ![Len(front)].rows = Append(@, r)]
            ELSE Append(front, [name |-> KeyOf(r), rows |-> <<r>>])

\* df.groupby([highway, county]): groups in sorted key order (sort=True),
\* keys holding NaN left out (dropna=True), rows of a group in table order.
GroupBy(t) ==
  LET keys == {KeyOf(t[i]) : i \in 1..Len(t)}
      present == {k \in keys : ~isna(k[1]) /\ ~isna(k[2])}
      order == SortKeys(present)
  IN [j \in 1..Len(order) |->
        [name |-> order[j], rows |-> SelectSeq(t, LAMBDA r : KeyOf(r) = order[j])]]

\* valid_scores = group[score_col].dropna()
ValidScores(group) ==
  LET col == [i \in 1..Len(group.rows) |-> group.rows[i].score]
  IN SelectSeq(col, LAMBDA x : ~isna(x))

\* Variant: the limit taken inclusive, valid_scores <= 50.
ScoresBelow50_Inclusive(valid_scores) == SelectSeq(valid_scores, LAMBDA x : x[1] <= Limit)

\* scores_below_50 = valid_scores[valid_scores < 50]
ScoresBelow50(valid_scores) == SelectSeq(valid_scores, LAMBDA x : x[1] < Limit)

\* Variant: a group must have a valid score to count as having none below 50.
NoCellsBelow50_NonEmpty(group) ==
  Len(ValidScores(group)) > 0 /\ Len(ScoresBelow50(ValidScores(group))) = 0

\* if len(scores_below_50) == 0
NoCellsBelow50(group) == Len(ScoresBelow50(ValidScores(group))) = 0

\* Variant: the other reading the source's comment names, n_points = len(group).
NPoints_AllRows(group) == Len(group.rows)

\* n_points = len(valid_scores)
NPoints(group) == Len(ValidScores(group))

\* if n_points < threshold_n
BelowNThreshold(group, n) == NPoints(group) < n

\* Variant: the first counter counts the cells at or above the limit rather
\* than the groups without a cell below it.
ProcessGroup_CountCells(c, group, n) ==
  <<c[1] + 1,
    c[2] + Len(ValidScores(group)) - Len(ScoresBelow50(ValidScores(group))),
    IF BelowNThreshold(group, n) THEN c[3] + 1 ELSE c[3]>>

\* One pass of the loop body on the counters c = <<total, no50, belowN>>.
ProcessGroup(c, group, n) ==
  <<c[1] + 1,
    IF NoCellsBelow50(group) THEN c[2] + 1 ELSE c[2],
    IF BelowNThreshold(group, n) THEN c[3] + 1 ELSE c[3]>>

\* The counters after the loop over the groups gs, from <<0, 0, 0>>.
RECURSIVE Accumulate(_, _)
Accumulate(gs, n) ==
  IF Len(gs) = 0 THEN <<0, 0, 0>>
  ELSE ProcessGroup(Accumulate(SubSeq(gs, 1, Len(gs) - 1), n), gs[Len(gs)], n)

\* Lines 13-45 as one function of the table read: the final counters.
Analyze(t, n) == Accumulate(GroupBy(ToNumeric(DropNa(t))), n)

\* {count/total_groups*100:.2f}, in hundredths of a percent (total > 0).
Pct(count, total) == (2 * 10000 * count + total) \div (2 * total)

\* ---------------------------------------------------------------- Init
Init ==
  /\ file_path \in Paths
  /\ threshold_n \in Thresholds
  /\ file \in (IF file_path \in ExistingPaths THEN Files ELSE {Missing})
  /\ pc = "start"
  /\ df = <<>>
  /\ grouped = <<>>
  /\ idx = 0
  /\ total_groups = 0
  /\ no_cells_below_50_count = 0
  /\ below_n_threshold_count = 0
  /\ out = <<>>
  /\ exc = "None"

\* ------------------------------------------------------------- actions
\* line 5
PrintLoading ==
  /\ pc = "start"
  /\ out' = Append(out, <<"Loading", file_path>>)
  /\ pc' = "read"
  /\ UNCHANGED <<inputs, df, grouped, idx, counters, exc>>

\* line 7, the read succeeds
ReadCsv ==
  /\ pc = "read"
  /\ file.exists
  /\ file.columns # {}
  /\ df' = file.rows
  /\ pc' = "dropna"
  /\ UNCHANGED <<inputs, grouped, idx, counters, out, exc>>

\* Variant: the handler reports the error and raises it again.
ReadCsvNotFound_Reraise ==
  /\ pc = "read"
  /\ ~file.exists
  /\ out' = Append(out, <<"Error", file_path>>)
  /\ exc' = "FileNotFoundError"
  /\ pc' = "raised"
  /\ UNCHANGED <<inputs, df, grouped, idx, counters>>

\* lines 8-10, FileNotFoundError is caught
ReadCsvNotFound ==
  /\ pc = "read"
  /\ ~file.exists
  /\ out' = Append(out, <<"Error", file_path>>)
  /\ pc' = "returned"
  /\ UNCHANGED <<inputs, df, grouped, idx, counters, exc>>

\* line 7, an empty file: pandas raises EmptyDataError, which is not caught
ReadCsvEmpty ==
  /\ pc = "read"
  /\ file.exists
  /\ file.columns = {}
  /\ exc' = "EmptyDataError"
  /\ pc' = "raised"
  /\ UNCHANGED <<inputs, df, grouped, idx, counters, out>>

\* line 13
DropNaStep ==
  /\ pc = "dropna"
  /\ {HwCol, CountyCol} \subseteq file.columns
  /\ df' = DropNa(df)
  /\ pc' = "to_numeric"
  /\ UNCHANGED <<inputs, grouped, idx, counters, out, exc>>

\* line 13, a key column is not in the file
DropNaKeyError ==
  /\ pc = "dropna"
  /\ ~({HwCol, CountyCol} \subseteq file.columns)
  /\ exc' = "KeyError"
  /\ pc' = "raised"
  /\ UNCHANGED <<inputs, df, grouped, idx, counters, out>>

\* line 16
ToNumericStep ==
  /\ pc = "to_numeric"
  /\ ScoreCol \in file.columns
  /\ df' = ToNumeric(df)
  /\ pc' = "group"
  /\ UNCHANGED <<inputs, grouped, idx, counters, out, exc>>

\* line 16, the score column is not in the file
ToNumericKeyError ==
  /\ pc = "to_numeric"
  /\ ScoreCol \notin file.columns
  /\ exc' = "KeyError"
  /\ pc' = "raised"
  /\ UNCHANGED <<inputs, df, grouped, idx, counters, out>>

\* lines 18-26
GroupStep ==
  /\ pc = "group"
  /\ grouped' = GroupBy(df)
  /\ no_cells_below_50_count' = 0
  /\ below_n_threshold_count' = 0
  /\ total_groups' = 0
  /\ idx' = 0
  /\ out' = out \o <<<<"Grouping">>, <<"Analyzing", Len(grouped')>>>>
  /\ pc' = "loop"
  /\ UNCHANGED <<inputs, df, exc>>

\* lines 28-45, one iteration
LoopStep ==
  /\ pc = "loop"
  /\ idx < Len(grouped)
  /\ LET c == ProcessGroup(counters, grouped[idx + 1], threshold_n)
     IN /\ total_groups' = c[1]
        /\ no_cells_below_50_count' = c[2]
        /\ below_n_threshold_count' = c[3]
  /\ idx' = idx + 1
  /\ UNCHANGED <<inputs, pc, df, grouped, out, exc>>

\* line 47, after the last group
PrintDash ==
  /\ pc = "loop"
  /\ idx = Len(grouped)
  /\ out' = Append(out, <<"Dash">>)
  /\ pc' = "print_total"
  /\ UNCHANGED <<inputs, df, grouped, idx, counters, exc>>

\* line 48
PrintTotal ==
  /\ pc = "print_total"
  /\ out' = Append(out, <<"Total", total_groups>>)
  /\ pc' = "print_no50"
  /\ UNCHANGED <<inputs, df, grouped, idx, counters, exc>>

\* line 49
PrintNoBelow50 ==
  /\ pc = "print_no50"
  /\ total_groups # 0
  /\ out' = Append(out, <<"NoBelow50", no_cells_below_50_count,
                          Pct(no_cells_below_50_count, total_groups)>>)
  /\ pc' = "print_belowN"
  /\ UNCHANGED <<inputs, df, grouped, idx, counters, exc>>

\* line 49 with total_groups = 0: the division raises before anything is
\* printed, and nothing catches it
PrintNoBelow50ZeroDivision ==
  /\ pc = "print_no50"
  /\ total_groups = 0
  /\ exc' = "ZeroDivisionError"
  /\ pc' = "raised"
  /\ UNCHANGED <<inputs, df, grouped, idx, counters, out>>

\* line 50 (total_groups # 0 here: line 49 has divided by it)
PrintBelowN ==
  /\ pc = "print_belowN"
  /\ out' = Append(out, <<"BelowN", threshold_n, below_n_threshold_count,
                          Pct(below_n_threshold_count, total_groups)>>)
  /\ pc' = "print_dash"
  /\ UNCHANGED <<inputs, df, grouped, idx, counters, exc>>

\* line 51, then the function returns
PrintDashEnd ==
  /\ pc = "print_dash"
  /\ out' = Append(out, <<"Dash">>)
  /\ pc' = "returned"
  /\ UNCHANGED <<inputs, df, grouped, idx, counters, exc>>

Next ==
  \/ PrintLoading
  \/ ReadCsv
  \/ ReadCsvNotFound
  \/ ReadCsvEmpty
  \/ DropNaStep
  \/ DropNaKeyError
  \/ ToNumericStep
  \/ ToNumericKeyError
  \/ GroupStep
  \/ LoopStep
  \/ PrintDash
  \/ PrintTotal
  \/ PrintNoBelow50
  \/ PrintNoBelow50ZeroDivision
  \/ PrintBelowN
  \/ PrintDashEnd

Spec == Init /\ [][Next]_vars

\* ------------------------------------------------------------ properties
\* The file was read and holds the three columns: the run reaches the loop.
Readable == file.exists /\ file.columns = AllColumns

\* The run is over.
Ended == pc \in {"returned", "raised"}

\* The loop has processed every group.
LoopDone ==
  /\ Readable
  /\ \/ pc = "loop" /\ idx = Len(grouped)
     \/ pc \in {"print_total", "print_no50", "print_belowN", "print_dash"}
     \/ Ended

\* The loop has just ended: the counters hold their final values, which the
\* print statements only read.
AfterLoop == Readable /\ pc = "print_total"

HasKeys(r) == r.hw # NaN /\ r.county # NaN

\* The number of printed lines that carry a summary statistic.
StatLines == Cardinality({i \in 1..Len(out) : out[i][1] \in {"Total", "NoBelow50", "BelowN"}})

\* The rows of group j whose score is not null.
ValidRows(j) == {i \in 1..Len(grouped[j].rows) : grouped[j].rows[i].score # NaN}

\* The rows of the file under the key of group j.
FileRowsOf(j) == {i \in 1..Len(file.rows) : <<file.rows[i].hw, file.rows[i].county>> = grouped[j].name}

Permute(s, p) == [i \in 1..Len(s) |-> s[p[i]]]

\* C1: with a path to no file, the run prints the message naming the path,
\* never groups, prints no statistic, and returns with no exception.
C1_MissingFileReturns ==
  ~file.exists =>
    /\ pc \in {"start", "read", "returned"}
    /\ exc = "None"
    /\ grouped = <<>>
    /\ StatLines = 0
    /\ pc = "returned" =>
         /\ Len(out) = 2
         /\ out[1] = <<"Loading", file_path>>
         /\ out[2] = <<"Error", file_path>>

C1_Witness == ~file.exists /\ pc = "returned" /\ file_path = "./typo.csv"

\* C2: after the loop, no_cells_below_50_count is the number of groups with
\* no valid score strictly below 50 (a score of exactly 50 is not below).
C2_NoBelow50Count ==
  LoopDone =>
    no_cells_below_50_count =
      Cardinality({j \in 1..Len(grouped) :
                     \A i \in ValidRows(j) : ~(grouped[j].rows[i].score[1] < Limit)})

C2_Witness ==
  /\ LoopDone
  /\ Len(grouped) = 2
  /\ \E i \in ValidRows(1) : grouped[1].rows[i].score[1] = 49
  /\ \E i \in ValidRows(1) : grouped[1].rows[i].score[1] = 50
  /\ \A i \in 1..Len(grouped[2].rows) : grouped[2].rows[i].score = <<50>>
  /\ no_cells_below_50_count = 1

\* C3: after the loop, below_n_threshold_count is the number of groups with
\* fewer than threshold_n valid scores; a row whose score is not a number
\* is a row of its group but not one of its valid scores.
C3_BelowNCount ==
  LoopDone =>
    /\ below_n_threshold_count =
         Cardinality({j \in 1..Len(grouped) : Cardinality(ValidRows(j)) < threshold_n})
    /\ \A j \in 1..Len(grouped) :
         /\ Len(grouped[j].rows) = Cardinality(FileRowsOf(j))
         /\ Cardinality(ValidRows(j)) =
              Cardinality({i \in FileRowsOf(j) : ParseNumber(file.rows[i].score) # NaN})

C3_Witness ==
  /\ LoopDone
  /\ threshold_n = 3
  /\ Len(grouped) = 1
  /\ Len(grouped[1].rows) = 3
  /\ Cardinality(ValidRows(1)) = 2
  /\ \E i \in FileRowsOf(1) : file.rows[i].score = <<"a">>
  /\ below_n_threshold_count = 1

\* C4: the rows without a highway id or a county are in no group and change
\* no count: the counters are those of the input without these rows, and
\* total_groups is the number of distinct keys of the rows that have both.
C4_MissingKeysExcluded ==
  AfterLoop =>
    /\ counters = Analyze(SelectSeq(file.rows, HasKeys), threshold_n)
    /\ total_groups =
         Cardinality({<<file.rows[i].hw, file.rows[i].county>> :
                        i \in {k \in 1..Len(file.rows) : HasKeys(file.rows[k])}})
    /\ \A j \in 1..Len(grouped) :
         /\ grouped[j].name[1] # NaN /\ grouped[j].name[2] # NaN
         /\ \A i \in 1..Len(grouped[j].rows) : HasKeys(grouped[j].rows[i])

C4_Witness ==
  /\ LoopDone
  /\ total_groups = 2
  /\ \E i \in 1..Len(file.rows) : file.rows[i].county = NaN
  /\ Len(df) < Len(file.rows)

\* C5: a run that has ended has printed all the summary statistics or none.
C5_AllOrNothing == Ended => StatLines \in {0, 3}

\* C6: when every row is excluded for a missing key, total_groups is 0 and
\* the run never divides by it.
C6_NoDivisionByZero ==
  (/\ Readable
   /\ Len(file.rows) >= 1
   /\ \A i \in 1..Len(file.rows) : ~HasKeys(file.rows[i])
   /\ Ended)
  => total_groups = 0 /\ exc # "ZeroDivisionError"

\* C7: the counters stay between 0 and total_groups, total_groups is the
\* number of groups processed, and one group adds exactly 1 to
\* total_groups and at most 1 to each counter.
C7_Bounds ==
  /\ total_groups = idx
  /\ 0 <= no_cells_below_50_count /\ no_cells_below_50_count <= total_groups
  /\ 0 <= below_n_threshold_count /\ below_n_threshold_count <= total_groups

C7_LoopInvariant ==
  /\ []C7_Bounds
  /\ [][idx' # idx =>
          /\ idx' = idx + 1
          /\ total_groups' = total_groups + 1
          /\ no_cells_below_50_count' - no_cells_below_50_count \in {0, 1}
          /\ below_n_threshold_count' - below_n_threshold_count \in {0, 1}]_vars

C7_Witness ==
  /\ pc = "loop"
  /\ idx = 2
  /\ total_groups = 2
  /\ no_cells_below_50_count = 1
  /\ below_n_threshold_count = 2

\* C8: a group none of whose scores is valid is a group all the same: it
\* adds 1 to total_groups and to no_cells_below_50_count and, when
\* threshold_n >= 1, to below_n_threshold_count.
C8_NoValidScore(g) == \A i \in 1..Len(g.rows) : g.rows[i].score = NaN

C8_EmptyGroupCounted ==
  /\ [](pc \in {"loop", "print_total"} =>
          \A i \in 1..Len(file.rows) :
            HasKeys(file.rows[i]) =>
              \E j \in 1..Len(grouped) : grouped[j].name = <<file.rows[i].hw, file.rows[i].county>>)
  /\ [][(pc = "loop" /\ idx < Len(grouped) /\ C8_NoValidScore(grouped[idx + 1])) =>
          /\ total_groups' = total_groups + 1
          /\ no_cells_below_50_count' = no_cells_below_50_count + 1
          /\ threshold_n >= 1 => below_n_threshold_count' = below_n_threshold_count + 1]_vars

C8_Witness ==
  /\ pc = "loop"
  /\ idx = 1
  /\ threshold_n = 1
  /\ C8_NoValidScore(grouped[1])
  /\ Len(grouped[1].rows) = 2
  /\ \E i \in FileRowsOf(1) : file.rows[i].score = <<"a">>
  /\ counters = <<1, 1, 1>>

\* C9: the final counters are the same for every order of the groups and
\* for every order of the rows of the input.
C9_OrderIndependent ==
  AfterLoop =>
    /\ \A p \in Permutations(1..Len(grouped)) :
         Accumulate(Permute(grouped, p), threshold_n) = counters
    /\ \A q \in Permutations(1..Len(file.rows)) :
         Analyze(Permute(file.rows, q), threshold_n) = counters

C9_Witness ==
  /\ pc = "print_total"
  /\ Len(file.rows) = 3
  /\ Len(grouped) = 2
  /\ file.rows[1].hw = <<2>> /\ file.rows[2].hw = <<1>> /\ file.rows[3].hw = <<2>>
  /\ no_cells_below_50_count = 1

\* C10: coercing the scores before dropping the rows without a key gives
\* the table, the groups and the counters that the code's order gives.
C10_DropCoerceCommute ==
  /\ (Readable /\ pc = "group") => df = DropNa(ToNumeric(file.rows))
  /\ AfterLoop =>
       /\ grouped = GroupBy(DropNa(ToNumeric(file.rows)))
       /\ counters = Accumulate(GroupBy(DropNa(ToNumeric(file.rows))), threshold_n)

C10_Witness ==
  /\ LoopDone
  /\ \E i \in 1..Len(file.rows) : ~HasKeys(file.rows[i])
  /\ \E i \in 1..Len(file.rows) : HasKeys(file.rows[i]) /\ file.rows[i].score = <<"a">>
  /\ \E i \in 1..Len(file.rows) : HasKeys(file.rows[i]) /\ file.rows[i].score = <<>>
  /\ total_groups = 1
====
